---- MODULE Spec2Model ----
(***************************************************************************)
(* Model of the procurement dashboard (src/App.tsx, src/geminiService.ts): *)
(* the relational join of useData, the sortable / searchable DataTable and *)
(* the natural-language query of DataExplorerView.                         *)
(***************************************************************************)
EXTENDS Integers, Sequences, FiniteSets, TLC

VARIABLES
    articulos,      \* allData.articulos
    proveedores,    \* allData.proveedores
    contratos,      \* allData.contratos
    adjudicados,    \* allData.adjudicados
    dataWithJoins,  \* the memoized value of useData (NotBuilt before the first render)
    data,           \* DataTable: the data prop
    sortConfig,     \* useSortableData: the sortConfig state
    searchTerm,     \* DataTable: the searchTerm state
    engine,         \* the sorting algorithm of the JavaScript engine running the page
    query,          \* DataExplorerView: the query state
    isLoading,      \* DataExplorerView: the isLoading state
    result,         \* DataExplorerView: the result state
    error,          \* DataExplorerView: the error state
    pending,        \* calls of queryDataWithGemini awaiting the external service
    calls,          \* requests issued to the external service so far
    triggers,       \* button clicks and Enter presses so far
    ignored,        \* triggers that arrived while the controls were disabled
    lastResponse,   \* what the external service answered to the last call, once settled
    now,            \* DashboardView: new Date() read by the contract status memo
    legacyDate,     \* what new Date(string) gives in this engine for a text that is no ISO date
    contractStatusData,       \* DashboardView: the contract status memo
    spendingBySupplierData,   \* DashboardView: the spend by supplier memo
    activeTab,      \* App: the activeTab state
    stale,          \* calls in flight whose DataExplorerView has been unmounted
    contextData     \* handleQuery: the context sent with the last request

joinVars == <<articulos, proveedores, contratos, adjudicados, dataWithJoins>>
tableVars == <<data, sortConfig, searchTerm, engine>>

queryVars == <<query, isLoading, result, error, pending, calls, triggers, ignored,
               lastResponse>>

dashVars == <<now, legacyDate, contractStatusData, spendingBySupplierData>>
appVars == <<activeTab, stale, contextData>>

vars == <<articulos, proveedores, contratos, adjudicados, dataWithJoins,
          data, sortConfig, searchTerm, engine,
          query, isLoading, result, error, pending, calls, triggers, ignored,
          lastResponse,
          now, legacyDate, contractStatusData, spendingBySupplierData,
          activeTab, stale, contextData>>

(***************************************************************************)
(* Bounds of the model.                                                    *)
(***************************************************************************)
MaxArticulos == 2
MaxProveedores == 2
MaxContratos == 2
MaxAdjudicados == 2
MaxRows == 3
MaxTextLen == 4
MaxTriggers == 3
MaxSpendContratos == 12

\* All sequences over S of length at most n.
SeqsUpTo(S, n) == UNION {[1..k -> S] : k \in 0..n}

(***************************************************************************)
(* JavaScript values that are not records of the dataset.                  *)
(***************************************************************************)
Undefined == [t |-> "undefined"]
Null == [t |-> "null"]
NotBuilt == [t |-> "notbuilt"]
NoResponse == [kind |-> "none"]
InvalidDate == [t |-> "invalid"]

(***************************************************************************)
(* The base tables (types.ts): the fields the join reads, and the          *)
(* position of the row as its id field.                                    *)
(***************************************************************************)
Codigos == {1, 2}
CodigoFks == {1, 3}
ProveedorNames == {"P1", "P2"}
ProveedorFks == {"P1", "P3"}
ContratoCodes == {"C1", "C2"}
ContratoFks == {"C1", "C9"}

Articulo(i, c) == [codigo |-> c, partida_especifica |-> i]
Proveedor(i, p) == [id_proveedor |-> i, proveedor |-> p]
Contrato(i, k) == [id_contrato |-> i, contrato |-> k[1], proveedor_fk |-> k[2]]
Adjudicado(i, k) == [id_adjudicado |-> i, contrato_fk |-> k[1], codigo_fk |-> k[2]]

ArticuloTables ==
    {[i \in DOMAIN cs |-> Articulo(i, cs[i])] : cs \in SeqsUpTo(Codigos, MaxArticulos)}
ProveedorTables ==
    {[i \in DOMAIN ps |-> Proveedor(i, ps[i])] : ps \in SeqsUpTo(ProveedorNames, MaxProveedores)}
ContratoTables ==
    {[i \in DOMAIN ks |-> Contrato(i, ks[i])] :
        ks \in SeqsUpTo(ContratoCodes \X ProveedorFks, MaxContratos)}
AdjudicadoTables ==
    {[i \in DOMAIN ks |-> Adjudicado(i, ks[i])] :
        ks \in SeqsUpTo(ContratoFks \X CodigoFks, MaxAdjudicados)}

(***************************************************************************)
(* new Map(rows.map(r => [r[field], r])).get(key): a later entry with the  *)
(* same key replaces an earlier one; a missing key gives undefined.        *)
(***************************************************************************)
MapGet(rows, field, key) ==
    LET hits == {i \in DOMAIN rows : rows[i][field] = key}
    IN  IF hits = {} THEN Undefined
        ELSE rows[CHOOSE i \in hits : \A j \in hits : j <= i]

\* Array.prototype.slice(0, end).
Slice(arr, end) == SubSeq(arr, 1, IF Len(arr) < end THEN Len(arr) ELSE end)

\* {...record, field: value, ...}: the fields of record, those of extra
\* added or replaced.
Spread(record, extra) ==
    [f \in DOMAIN record \cup DOMAIN extra |->
        IF f \in DOMAIN extra THEN extra[f] ELSE record[f]]

\* Variant: the article is never attached.
AdjudicadoSinArticulo(arts, adj) == Spread(adj, [articulo |-> Undefined])

\* {...adj, articulo: articulosMap.get(adj.codigo_fk)}
AdjudicadoConArticulo(arts, adj) ==
    Spread(adj, [articulo |-> MapGet(arts, "codigo", adj.codigo_fk)])

adjudicadosConArticulo(arts, adjs) ==
    [i \in DOMAIN adjs |-> AdjudicadoConArticulo(arts, adjs[i])]

\* Variant: the award list is not filtered by contract.
AdjudicadosDeTodos(joined, con) == joined

\* adjudicadosConArticulo.filter(adj => adj.contrato_fk === con.contrato)
AdjudicadosDe(joined, con) ==
    LET Test(adj) == adj.contrato_fk = con.contrato
    IN  SelectSeq(joined, Test)

\* Variant: the supplier is looked up by the contract code instead of proveedor_fk.
ContratoConProveedorPorContrato(provs, joined, con) ==
    Spread(con, [proveedor |-> MapGet(provs, "proveedor", con.contrato),
                 adjudicados |-> AdjudicadosDe(joined, con)])

\* {...con, proveedor: proveedoresMap.get(con.proveedor_fk), adjudicados: ...}
ContratoConProveedor(provs, joined, con) ==
    Spread(con, [proveedor |-> MapGet(provs, "proveedor", con.proveedor_fk),
                 adjudicados |-> AdjudicadosDe(joined, con)])

\* The value computed by the useMemo of useData.
BuildJoins(arts, provs, cons, adjs) ==
    LET joined == adjudicadosConArticulo(arts, adjs)
    IN  [t |-> "built",
         articulos |-> arts,
         proveedores |-> provs,
         contratos |-> [i \in DOMAIN cons |-> ContratoConProveedor(provs, joined, cons[i])],
         adjudicados |-> joined]

(***************************************************************************)
(* The join: the tables are loaded wholesale, useData joins them once.     *)
(***************************************************************************)
DefaultArticulos == <<Articulo(1, 1), Articulo(2, 2)>>
DefaultProveedores == <<Proveedor(1, "P1"), Proveedor(2, "P2")>>

\* No DashboardView has been rendered.
DashIdle ==
    /\ now = 0
    /\ legacyDate = InvalidDate
    /\ contractStatusData = Null
    /\ spendingBySupplierData = Null

\* The App state that the views taken alone do not touch.
AppIdle ==
    /\ activeTab = "dashboard"
    /\ stale = 0
    /\ contextData = Null

\* The state of a DataExplorerView after its first render.
QueryIdle ==
    /\ query = <<>>
    /\ isLoading = FALSE
    /\ result = Null
    /\ error = Null
    /\ pending = 0
    /\ calls = 0
    /\ triggers = 0
    /\ ignored = 0
    /\ lastResponse = NoResponse

TableIdle ==
    /\ data = <<>>
    /\ sortConfig = Null
    /\ searchTerm = <<>>
    /\ engine = "timsort"

JoinInit ==
    /\ TableIdle
    /\ QueryIdle
    /\ DashIdle
    /\ AppIdle
    /\ dataWithJoins = NotBuilt
    /\ \/ /\ articulos \in ArticuloTables
          /\ adjudicados \in AdjudicadoTables
          /\ proveedores = DefaultProveedores
          /\ contratos = <<Contrato(1, <<"C1", "P1">>)>>
       \/ /\ articulos = DefaultArticulos
          /\ adjudicados \in AdjudicadoTables
          /\ proveedores \in ProveedorTables
          /\ contratos \in ContratoTables

UseData ==
    /\ dataWithJoins = NotBuilt
    /\ dataWithJoins' = BuildJoins(articulos, proveedores, contratos, adjudicados)
    /\ UNCHANGED <<articulos, proveedores, contratos, adjudicados>>
    /\ UNCHANGED tableVars
    /\ UNCHANGED queryVars
    /\ UNCHANGED <<dashVars, appVars>>

JoinNext == UseData

SpecJoin == JoinInit /\ [][JoinNext]_vars

Built == dataWithJoins # NotBuilt

(***************************************************************************)
(* C1: every joined contract carries a supplier whose proveedor equals its *)
(* proveedor_fk when such a supplier exists (the one the Map holds: the    *)
(* last of them), otherwise proveedor is undefined; proveedor_fk is kept   *)
(* unchanged, and the join is built for every input, dangling keys         *)
(* included.                                                               *)
(***************************************************************************)
C1_SupplierJoin ==
    Built =>
        /\ Len(dataWithJoins.contratos) = Len(contratos)
        /\ \A i \in DOMAIN contratos :
            LET c == contratos[i]
                j == dataWithJoins.contratos[i]
                matches == {k \in DOMAIN proveedores :
                                proveedores[k].proveedor = c.proveedor_fk}
            IN  /\ j.proveedor_fk = c.proveedor_fk
                /\ j.contrato = c.contrato
                /\ matches # {} =>
                      /\ \E k \in matches : j.proveedor = proveedores[k]
                      /\ j.proveedor.proveedor = c.proveedor_fk
                /\ matches = {} => j.proveedor = Undefined

C1_Witness ==
    /\ Built
    /\ \E i, j \in DOMAIN dataWithJoins.contratos :
        /\ dataWithJoins.contratos[i].proveedor = Undefined
        /\ dataWithJoins.contratos[i].proveedor_fk = "P3"
        /\ dataWithJoins.contratos[j].proveedor # Undefined

(***************************************************************************)
(* C2: every joined award carries an article whose codigo equals its       *)
(* codigo_fk, or undefined when no article has that code; the joined       *)
(* awards are the base awards, one for one, in the same order.             *)
(***************************************************************************)
C2_ArticleJoin ==
    Built =>
        /\ Len(dataWithJoins.adjudicados) = Len(adjudicados)
        /\ \A i \in DOMAIN adjudicados :
            LET a == adjudicados[i]
                j == dataWithJoins.adjudicados[i]
                matches == {k \in DOMAIN articulos : articulos[k].codigo = a.codigo_fk}
            IN  /\ j.id_adjudicado = a.id_adjudicado
                /\ j.contrato_fk = a.contrato_fk
                /\ j.codigo_fk = a.codigo_fk
                /\ matches # {} =>
                      /\ \E k \in matches : j.articulo = articulos[k]
                      /\ j.articulo.codigo = a.codigo_fk
                /\ matches = {} => j.articulo = Undefined

C2_Witness ==
    /\ Built
    /\ \E i, j \in DOMAIN dataWithJoins.adjudicados :
        /\ dataWithJoins.adjudicados[i].articulo = Undefined
        /\ dataWithJoins.adjudicados[j].articulo # Undefined
        /\ i < j

(***************************************************************************)
(* C3: the adjudicados of a joined contract are exactly the joined awards  *)
(* whose contrato_fk equals its contrato, in table order; an award whose   *)
(* contrato_fk matches no contract is in no list.                          *)
(***************************************************************************)
\* s is the subsequence of t selected by the predicate, in order.
IsFilterOf(s, t, Keep(_)) ==
    LET kept == {k \in DOMAIN t : Keep(t[k])}
    IN  /\ Len(s) = Cardinality(kept)
        /\ \A n \in DOMAIN s :
              \E k \in kept :
                  /\ s[n] = t[k]
                  /\ Cardinality({m \in kept : m < k}) = n - 1

C3_AwardLists ==
    Built =>
        /\ \A i \in DOMAIN dataWithJoins.contratos :
            LET c == dataWithJoins.contratos[i]
                Keep(a) == a.contrato_fk = c.contrato
            IN  IsFilterOf(c.adjudicados, dataWithJoins.adjudicados, Keep)
        /\ \A k \in DOMAIN dataWithJoins.adjudicados :
            LET a == dataWithJoins.adjudicados[k]
            IN  (\A i \in DOMAIN contratos : contratos[i].contrato # a.contrato_fk)
                    => \A i \in DOMAIN dataWithJoins.contratos :
                          \A n \in DOMAIN dataWithJoins.contratos[i].adjudicados :
                              dataWithJoins.contratos[i].adjudicados[n] # a

C3_Witness ==
    /\ Built
    /\ Len(dataWithJoins.adjudicados) = 2
    /\ dataWithJoins.adjudicados[1].contrato_fk = "C9"
    /\ dataWithJoins.adjudicados[2].contrato_fk = "C1"
    /\ \E i, j \in DOMAIN dataWithJoins.contratos :
        /\ Len(dataWithJoins.contratos[i].adjudicados) = 1
        /\ dataWithJoins.contratos[j].adjudicados = <<>>

(***************************************************************************)
(* Cell values of a table row: strings are sequences of characters,        *)
(* numbers are naturals, and a cell may be null or undefined.              *)
(***************************************************************************)
Str(s) == [t |-> "string", v |-> s]
Num(n) == [t |-> "number", v |-> n]

IsNullish(x) == x = Null \/ x = Undefined

\* The characters of the model in increasing UTF-16 code unit order.
CodeUnitOrder ==
    <<"0", "1", "2", "3", "4", "5", "6", "7", "8", "9", "A", "B",
      "a", "b", "d", "e", "f", "i", "l", "n", "u">>

CharCode(c) == CHOOSE i \in DOMAIN CodeUnitOrder : CodeUnitOrder[i] = c

\* String.prototype.toLowerCase
ToLowerChar(c) == CASE c = "A" -> "a" [] c = "B" -> "b" [] OTHER -> c

ToLowerCase(s) == [i \in DOMAIN s |-> ToLowerChar(s[i])]

\* s < t on strings: lexicographic order of the code units.
RECURSIVE StrLess(_, _)
StrLess(s, t) ==
    IF t = <<>> THEN FALSE
    ELSE IF s = <<>> THEN TRUE
    ELSE IF CharCode(Head(s)) < CharCode(Head(t)) THEN TRUE
    ELSE IF CharCode(Head(s)) > CharCode(Head(t)) THEN FALSE
    ELSE StrLess(Tail(s), Tail(t))

\* String(n) of a natural number.
RECURSIVE Digits(_)
Digits(n) ==
    IF n < 10 THEN <<CodeUnitOrder[n + 1]>>
    ELSE Digits(n \div 10) \o <<CodeUnitOrder[(n % 10) + 1]>>

\* String(value)
StringOf(x) ==
    CASE x.t = "string" -> x.v
      [] x.t = "number" -> Digits(x.v)
      [] x.t = "null" -> <<"n", "u", "l", "l">>
      [] x.t = "undefined" -> <<"u", "n", "d", "e", "f", "i", "n", "e", "d">>

\* String.prototype.includes
Includes(s, sub) ==
    \E off \in 0..(Len(s) - Len(sub)) :
        \A i \in 1..Len(sub) : s[off + i] = sub[i]

(***************************************************************************)
(* The rows of a table: an id column (the position in the data prop) and   *)
(* two data columns.                                                       *)
(***************************************************************************)
PrecioValues == {Null, Num(2), Num(3), Num(10), Str(<<"a">>), Str(<<"A">>)}
DescripcionValues == {Undefined, Str(<<"A", "b">>)}

Columns == {"precio_medio", "descripcion_articulo"}
searchKeys == {"precio_medio", "descripcion_articulo"}
SearchTerms == {<<>>, <<"A">>, <<"1">>, <<"u">>}
Engines == {"timsort", "insertion"}

Row(i, k) == [codigo |-> i, precio_medio |-> k[1], descripcion_articulo |-> k[2]]

DataTables ==
    {[i \in DOMAIN ks |-> Row(i, ks[i])] :
        ks \in SeqsUpTo(PrecioValues \X DescripcionValues, MaxRows)}

(***************************************************************************)
(* useSortableData: the comparator handed to Array.prototype.sort.         *)
(***************************************************************************)
Asc(key) == [key |-> key, direction |-> "asc"]
Desc(key) == [key |-> key, direction |-> "desc"]

\* Variant: a null or undefined value is put first.
CompareNullsFirst(a, b, cfg) ==
    LET aValue == a[cfg.key]
        bValue == b[cfg.key]
        up == cfg.direction = "asc"
    IN  IF IsNullish(aValue) THEN -1
        ELSE IF IsNullish(bValue) THEN 1
        ELSE IF aValue.t = "string" /\ bValue.t = "string"
             THEN IF StrLess(ToLowerCase(aValue.v), ToLowerCase(bValue.v))
                  THEN (IF up THEN -1 ELSE 1)
                  ELSE IF StrLess(ToLowerCase(bValue.v), ToLowerCase(aValue.v))
                  THEN (IF up THEN 1 ELSE -1)
                  ELSE 0
        ELSE IF aValue.t = "number" /\ bValue.t = "number"
             THEN IF aValue.v < bValue.v THEN (IF up THEN -1 ELSE 1)
                  ELSE IF aValue.v > bValue.v THEN (IF up THEN 1 ELSE -1)
                  ELSE 0
        ELSE 0

\* Variant: the direction is ignored.
CompareAscOnly(a, b, cfg) ==
    LET aValue == a[cfg.key]
        bValue == b[cfg.key]
    IN  IF IsNullish(aValue) THEN 1
        ELSE IF IsNullish(bValue) THEN -1
        ELSE IF aValue.t = "string" /\ bValue.t = "string"
             THEN IF StrLess(ToLowerCase(aValue.v), ToLowerCase(bValue.v)) THEN -1
                  ELSE IF StrLess(ToLowerCase(bValue.v), ToLowerCase(aValue.v)) THEN 1
                  ELSE 0
        ELSE IF aValue.t = "number" /\ bValue.t = "number"
             THEN IF aValue.v < bValue.v THEN -1
                  ELSE IF aValue.v > bValue.v THEN 1
                  ELSE 0
        ELSE 0

Compare(a, b, cfg) ==
    LET aValue == a[cfg.key]
        bValue == b[cfg.key]
        up == cfg.direction = "asc"
    IN  IF IsNullish(aValue) THEN 1
        ELSE IF IsNullish(bValue) THEN -1
        ELSE IF aValue.t = "string" /\ bValue.t = "string"
             THEN IF StrLess(ToLowerCase(aValue.v), ToLowerCase(bValue.v))
                  THEN (IF up THEN -1 ELSE 1)
                  ELSE IF StrLess(ToLowerCase(bValue.v), ToLowerCase(aValue.v))
                  THEN (IF up THEN 1 ELSE -1)
                  ELSE 0
        ELSE IF aValue.t = "number" /\ bValue.t = "number"
             THEN IF aValue.v < bValue.v THEN (IF up THEN -1 ELSE 1)
                  ELSE IF aValue.v > bValue.v THEN (IF up THEN 1 ELSE -1)
                  ELSE 0
        ELSE 0

\* (a, b) => b.value - a.value, the comparator of spendingBySupplierData.
CompareByValueDesc(a, b) == b.value - a.value

ByValueDesc == [t |-> "byValueDesc"]

\* The comparator a call of sort was given: that of useSortableData for a sort
\* configuration, that of spendingBySupplierData for ByValueDesc.
CompareFn(a, b, cfg) ==
    IF cfg = ByValueDesc THEN CompareByValueDesc(a, b) ELSE Compare(a, b, cfg)

(***************************************************************************)
(* Array.prototype.sort.  The comparator above is not a consistent         *)
(* comparator when a value is null or the types are mixed, so the order is *)
(* the one the engine's algorithm happens to produce.  Two algorithms are  *)
(* modelled for the short arrays of the model: TimSort as in V8 (a run is  *)
(* counted, a strictly descending run is reversed, the rest is inserted by *)
(* binary search) and the classic insertion sort scanning right to left.   *)
(***************************************************************************)
RECURSIVE RunEnd(_, _, _, _)
RunEnd(arr, cfg, isDescending, idx) ==
    IF idx > Len(arr) THEN idx - 1
    ELSE LET order == CompareFn(arr[idx], arr[idx - 1], cfg)
         IN  IF (isDescending /\ order >= 0) \/ (~isDescending /\ order < 0)
             THEN idx - 1
             ELSE RunEnd(arr, cfg, isDescending, idx + 1)

\* CountRunAndMakeAscending: [run |-> length of the first run, arr |-> the array
\* with that run in ascending order]; Len(arr) >= 2.
CountRunAndMakeAscending(arr, cfg) ==
    LET isDescending == CompareFn(arr[2], arr[1], cfg) < 0
        run == RunEnd(arr, cfg, isDescending, 3)
    IN  [run |-> run,
         arr |-> IF isDescending
                 THEN [i \in DOMAIN arr |-> IF i <= run THEN arr[run + 1 - i] ELSE arr[i]]
                 ELSE arr]

\* The 0-based insertion point of pivot in arr[left .. right-1].
RECURSIVE BinarySearch(_, _, _, _, _)
BinarySearch(arr, cfg, pivot, left, right) ==
    IF left >= right THEN left
    ELSE LET mid == left + ((right - left) \div 2)
         IN  IF CompareFn(pivot, arr[mid + 1], cfg) < 0
             THEN BinarySearch(arr, cfg, pivot, left, mid)
             ELSE BinarySearch(arr, cfg, pivot, mid + 1, right)

\* arr with the element at 0-based index from moved to 0-based index to (to <= from).
MoveTo(arr, from, to) ==
    [i \in DOMAIN arr |->
        IF i - 1 < to \/ i - 1 > from THEN arr[i]
        ELSE IF i - 1 = to THEN arr[from + 1]
        ELSE arr[i - 1]]

RECURSIVE BinaryInsertionSort(_, _, _)
BinaryInsertionSort(arr, cfg, start) ==
    IF start >= Len(arr) THEN arr
    ELSE LET pos == BinarySearch(arr, cfg, arr[start + 1], 0, start)
         IN  BinaryInsertionSort(MoveTo(arr, start, pos), cfg, start + 1)

TimSort(arr, cfg) ==
    IF Len(arr) < 2 THEN arr
    ELSE LET counted == CountRunAndMakeAscending(arr, cfg)
         IN  BinaryInsertionSort(counted.arr, cfg, counted.run)

\* The 0-based index the element at 0-based index i ends at: it moves left
\* past every element that compares greater than it.
RECURSIVE ScanLeft(_, _, _, _)
ScanLeft(arr, cfg, i, j) ==
    IF j < 0 THEN 0
    ELSE IF CompareFn(arr[j + 1], arr[i + 1], cfg) > 0 THEN ScanLeft(arr, cfg, i, j - 1)
    ELSE j + 1

RECURSIVE InsertionSort(_, _, _)
InsertionSort(arr, cfg, i) ==
    IF i >= Len(arr) THEN arr
    ELSE InsertionSort(MoveTo(arr, i, ScanLeft(arr, cfg, i, i - 1)), cfg, i + 1)

ArraySort(arr, cfg) ==
    IF engine = "timsort" THEN TimSort(arr, cfg) ELSE InsertionSort(arr, cfg, 1)

\* The sortedItems memo of useSortableData.
SortItems(items, cfg) == IF cfg # Null THEN ArraySort(items, cfg) ELSE items

sortedItems == SortItems(data, sortConfig)

\* Variant: the memo sorts the items array itself (no copy is made).
ItemsAfterSortInPlace(items, cfg) == SortItems(items, cfg)

\* The items array after the sortedItems memo ran: Array.prototype.sort
\* reorders its receiver, and the receiver is sortableItems, the new array
\* [...items]; items itself is only read.
ItemsAfterSort(items, cfg) == items

\* Variant: a third click on a column clears the sort.
RequestSortCycle(cfg, key) ==
    IF cfg # Null /\ cfg.key = key
    THEN (IF cfg.direction = "asc" THEN Desc(key) ELSE Null)
    ELSE Asc(key)

\* requestSort: the sort configuration after a click on the header of key.
requestSort(cfg, key) ==
    IF cfg # Null /\ cfg.key = key /\ cfg.direction = "asc" THEN Desc(key) ELSE Asc(key)

(***************************************************************************)
(* DataTable: the filteredData memo.                                       *)
(***************************************************************************)
\* Variant: the row must match on every search key.
MatchesEvery(item, term) ==
    \A key \in searchKeys :
        LET value == item[key]
        IN  /\ value # Null
            /\ value # Undefined
            /\ Includes(ToLowerCase(StringOf(value)), ToLowerCase(term))

Matches(item, term) ==
    \E key \in searchKeys :
        LET value == item[key]
        IN  /\ value # Null
            /\ value # Undefined
            /\ Includes(ToLowerCase(StringOf(value)), ToLowerCase(term))

FilterData(sorted, term) ==
    IF term = <<>> THEN sorted
    ELSE LET Test(item) == Matches(item, term)
         IN  SelectSeq(sorted, Test)

filteredData == FilterData(sortedItems, searchTerm)

(***************************************************************************)
(* The table: a DataTable is mounted with its data, then the user clicks   *)
(* column headers and edits the search box.                                *)
(***************************************************************************)
JoinIdle ==
    /\ articulos = <<>>
    /\ proveedores = <<>>
    /\ contratos = <<>>
    /\ adjudicados = <<>>
    /\ dataWithJoins = NotBuilt

TableInit ==
    /\ JoinIdle
    /\ QueryIdle
    /\ DashIdle
    /\ AppIdle
    /\ data \in DataTables
    /\ engine \in Engines
    /\ sortConfig = Null
    /\ searchTerm = <<>>

\* The table's items prop is the articulos array of the joined dataset, which
\* is the array of the base table (useData spreads allData).
ItemsShared == dataWithJoins # NotBuilt /\ activeTab = "products"

\* A header click: requestSort, then the render that recomputes sortedItems.
RequestSort(key) ==
    /\ sortConfig' = requestSort(sortConfig, key)
    /\ LET items == ItemsAfterSort(data, sortConfig')
       IN  /\ data' = items
           /\ articulos' = IF ItemsShared THEN items ELSE articulos
           /\ dataWithJoins' = IF ItemsShared
                                THEN [dataWithJoins EXCEPT !.articulos = items]
                                ELSE dataWithJoins
    /\ UNCHANGED <<proveedores, contratos, adjudicados, searchTerm, engine>>
    /\ UNCHANGED queryVars
    /\ UNCHANGED <<dashVars, appVars>>

SetSearchTerm(term) ==
    /\ searchTerm' = term
    /\ UNCHANGED <<data, sortConfig, engine>>
    /\ UNCHANGED joinVars
    /\ UNCHANGED queryVars
    /\ UNCHANGED <<dashVars, appVars>>

TableNext ==
    \/ \E key \in Columns : RequestSort(key)
    \/ \E term \in SearchTerms : SetSearchTerm(term)

SpecTable == TableInit /\ [][TableNext]_vars

(***************************************************************************)
(* C4: the sort state starts as null; a click on the active key toggles    *)
(* the direction, a click on another key makes that key active ascending;  *)
(* the state holds at most one key and never returns to null.              *)
(***************************************************************************)
SortConfigs == {Null} \cup [key : Columns, direction : {"asc", "desc"}]

Toggled(direction) == IF direction = "asc" THEN "desc" ELSE "asc"

C4_SortState ==
    /\ sortConfig = Null
    /\ [][/\ sortConfig' \in SortConfigs
          /\ sortConfig # Null => sortConfig' # Null
          /\ \A key \in Columns :
                RequestSort(key) =>
                    /\ sortConfig' # Null
                    /\ sortConfig'.key = key
                    /\ (sortConfig # Null /\ sortConfig.key = key)
                          => sortConfig'.direction = Toggled(sortConfig.direction)
                    /\ (sortConfig = Null \/ sortConfig.key # key)
                          => sortConfig'.direction = "asc"]_vars

\* The active column was clicked again: its direction toggled to descending.
C4_Witness == sortConfig = Desc("descripcion_articulo")

(***************************************************************************)
(* C8: the rows displayed are the rows of the sorted list that pass the    *)
(* search, in the order of the sorted list: all of them when the term is   *)
(* empty, otherwise those with a search key whose value is neither null    *)
(* nor undefined and whose lower-cased string contains the lower-cased     *)
(* term; none when no row has such a value.                                *)
(***************************************************************************)
Shown(item) ==
    \/ searchTerm = <<>>
    \/ \E key \in searchKeys :
          /\ ~IsNullish(item[key])
          /\ Includes(ToLowerCase(StringOf(item[key])), ToLowerCase(searchTerm))

C8_Search ==
    LET sorted == sortedItems
        shown == filteredData
    IN  /\ IsFilterOf(shown, sorted, Shown)
        /\ searchTerm = <<>> => shown = sorted
        /\ (\A i \in DOMAIN data : ~Shown(data[i])) => shown = <<>>

\* A sorted table of three rows of which the search keeps the first and the
\* last: one matches on precio_medio only (in another case than the term),
\* one has a null and an undefined search value and is dropped.
C8_Witness ==
    /\ sortConfig # Null
    /\ searchTerm = <<"A">>
    /\ Len(sortedItems) = 3
    /\ sortedItems # data
    /\ filteredData = <<sortedItems[1], sortedItems[3]>>
    /\ \E i \in DOMAIN data :
          /\ data[i].precio_medio = Null
          /\ data[i].descripcion_articulo = Undefined
    /\ \E i \in DOMAIN filteredData :
          /\ filteredData[i].precio_medio = Str(<<"a">>)
          /\ filteredData[i].descripcion_articulo = Undefined

(***************************************************************************)
(* C9: with an active sort key, in either direction, every row whose value *)
(* for the key is null or undefined comes after every row whose value for  *)
(* the key is not.                                                         *)
(***************************************************************************)
C9_NullsLast ==
    sortConfig # Null =>
        LET sorted == sortedItems
        IN  \A i, j \in DOMAIN sorted :
                (/\ IsNullish(sorted[i][sortConfig.key])
                 /\ ~IsNullish(sorted[j][sortConfig.key])) => j < i

\* Descending sort of a table that starts with a null and holds values of
\* mixed types.
C9_Witness ==
    /\ sortConfig # Null
    /\ sortConfig.direction = "desc"
    /\ Len(data) = 3
    /\ IsNullish(data[1][sortConfig.key])
    /\ ~IsNullish(data[3][sortConfig.key])
    /\ IsNullish(sortedItems[3][sortConfig.key])
    /\ \E i, j \in DOMAIN data :
          /\ data[i][sortConfig.key].t = "string"
          /\ data[j][sortConfig.key].t = "number"

(***************************************************************************)
(* C10: on a column whose values are all strings or all numbers, sorting   *)
(* the sorted output again with the same key and direction changes         *)
(* nothing, and the descending order is the reverse of the ascending one.  *)
(***************************************************************************)
Reverse(s) == [i \in DOMAIN s |-> s[Len(s) + 1 - i]]

OneType(items, key) ==
    \/ \A i \in DOMAIN items : items[i][key].t = "string"
    \/ \A i \in DOMAIN items : items[i][key].t = "number"

\* No two rows compare equal on the key.
NoTies(items, key) ==
    \A i, j \in DOMAIN items : i # j => Compare(items[i], items[j], Asc(key)) # 0

Idempotent == SortItems(sortedItems, sortConfig) = sortedItems

C10_Original ==
    (sortConfig # Null /\ OneType(data, sortConfig.key)) =>
        /\ Idempotent
        /\ sortConfig.direction = "desc"
              => sortedItems = Reverse(SortItems(data, Asc(sortConfig.key)))

\* Amended: the reversal holds when, in addition, no two rows have equal
\* values for the key (strings compared without regard to case).
C10_IdempotentAndReverse ==
    (sortConfig # Null /\ OneType(data, sortConfig.key)) =>
        /\ Idempotent
        /\ (sortConfig.direction = "desc" /\ NoTies(data, sortConfig.key))
              => sortedItems = Reverse(SortItems(data, Asc(sortConfig.key)))

C10_Witness ==
    /\ sortConfig = Desc("precio_medio")
    /\ Len(data) = 3
    /\ OneType(data, "precio_medio")
    /\ NoTies(data, "precio_medio")
    /\ sortedItems # data
    /\ sortedItems # Reverse(data)

(***************************************************************************)
(* geminiService.ts.  A text is a sequence of lexical pieces: the query is *)
(* made of blanks and letters, the response of the service of code fences, *)
(* words, JSON literals and line feeds.                                    *)
(***************************************************************************)
Fence == "FENCE"               \* three backquotes
WhiteSpace == {" ", "LF"}
WordPieces == {"json", "null"}      \* pieces matched by \w*
ResponsePieces == {Fence, "json", "null", "[1]", "LF"}

QueryInputs == {<<>>, <<" ">>, <<"q">>, <<" ", "q">>}

ResponseTexts == SeqsUpTo(ResponsePieces, MaxTextLen)

\* What the external call can settle with: a rejection, a response without
\* text, or a response text.
Responses ==
    {[kind |-> "reject"], [kind |-> "notext"]}
        \cup {[kind |-> "text", text |-> txt] : txt \in ResponseTexts}

RECURSIVE TrimStart(_)
TrimStart(s) ==
    IF s # <<>> /\ Head(s) \in WhiteSpace THEN TrimStart(Tail(s)) ELSE s

RECURSIVE TrimEnd(_)
TrimEnd(s) ==
    IF s # <<>> /\ s[Len(s)] \in WhiteSpace THEN TrimEnd(SubSeq(s, 1, Len(s) - 1)) ELSE s

\* String.prototype.trim
Trim(s) == TrimEnd(TrimStart(s))

RECURSIVE DropWords(_)
DropWords(s) ==
    IF s # <<>> /\ Head(s) \in WordPieces THEN DropWords(Tail(s)) ELSE s

\* jsonStr.match(fenceRegex), fence (\w*)? \s* \n? (.*?) \n? \s* fence, anchored
\* at both ends with the s flag: between an opening and
\* a closing fence the greedy \w* takes the leading words, \s* the white
\* space after them, and the lazy group 2 what is left up to the white space
\* before the closing fence; the text is replaced only by a non-empty group 2.
StripFence(jsonStr) ==
    IF Len(jsonStr) >= 2 /\ jsonStr[1] = Fence /\ jsonStr[Len(jsonStr)] = Fence
    THEN LET inner == SubSeq(jsonStr, 2, Len(jsonStr) - 1)
             group2 == TrimEnd(TrimStart(DropWords(inner)))
         IN  IF group2 # <<>> THEN Trim(group2) ELSE jsonStr
    ELSE jsonStr

\* JSON.parse: [ok |-> TRUE, value |-> v] or [ok |-> FALSE] for a SyntaxError.
JsonParse(str) ==
    LET body == Trim(str)
    IN  IF body = <<"null">> THEN [ok |-> TRUE, value |-> Null]
        ELSE IF body = <<"[1]">> THEN [ok |-> TRUE, value |-> [t |-> "array", v |-> <<1>>]]
        ELSE [ok |-> FALSE]

Message(m) == [t |-> "string", v |-> m]

FailedMessage ==
    "Failed to get a valid response from the AI. The AI may have returned a non-JSON response or an error occurred."

\* Variant: a response that does not parse is returned as it is.
QueryDataWithGeminiLenient(response) ==
    IF response.kind # "text" THEN [ok |-> FALSE, message |-> FailedMessage]
    ELSE LET parsed == JsonParse(StripFence(Trim(response.text)))
         IN  IF parsed.ok THEN [ok |-> TRUE, value |-> parsed.value]
             ELSE [ok |-> TRUE, value |-> [t |-> "raw", v |-> response.text]]

\* queryDataWithGemini once the external call has settled with response: the
\* parsed value or the one error thrown from the catch block.
QueryDataWithGemini(response) ==
    IF response.kind # "text" THEN [ok |-> FALSE, message |-> FailedMessage]
    ELSE LET parsed == JsonParse(StripFence(Trim(response.text)))
         IN  IF parsed.ok THEN [ok |-> TRUE, value |-> parsed.value]
             ELSE [ok |-> FALSE, message |-> FailedMessage]

(***************************************************************************)
(* DataExplorerView.                                                       *)
(***************************************************************************)
\* Variant: the controls stay enabled while loading.
NeverDisabled(loading) == FALSE

\* disabled={isLoading} on the input and on the button: a disabled control
\* receives no click and no key press.
Disabled(loading) == loading

\* onChange of the input.
SetQuery(q) ==
    /\ ~Disabled(isLoading)
    /\ query' = q
    /\ UNCHANGED <<isLoading, result, error, pending, calls, triggers, ignored,
                   lastResponse>>
    /\ UNCHANGED <<joinVars, tableVars>>
    /\ UNCHANGED <<dashVars, appVars>>

\* How many rows of each table go into the context.
ContextRows == 100

\* Variant: the context's contracts are the dataset's own objects, changed
\* in place.
BuildContextDataInPlace(d) ==
    LET contratos100 ==
            [i \in DOMAIN d.contratos |->
                IF i <= ContextRows
                THEN Spread(d.contratos[i],
                            [adjudicados |-> Len(d.contratos[i].adjudicados),
                             proveedor |-> Undefined])
                ELSE d.contratos[i]]
    IN  [data |-> [d EXCEPT !.contratos = contratos100],
         contextData |-> [articulos |-> Slice(d.articulos, ContextRows),
                          contratos |-> Slice(contratos100, ContextRows),
                          proveedores |-> Slice(d.proveedores, ContextRows)]]

\* The dataset and the context after handleQuery built contextData: slice
\* and map return new arrays, the spread a new object per contract.
BuildContextData(d) ==
    LET contratos100 == Slice(d.contratos, ContextRows)
    IN  [data |-> d,
         contextData |->
             [articulos |-> Slice(d.articulos, ContextRows),
              contratos |->
                  [i \in DOMAIN contratos100 |->
                      Spread(contratos100[i],
                             [adjudicados |-> Len(contratos100[i].adjudicados),
                              proveedor |-> Undefined])],
              proveedores |-> Slice(d.proveedores, ContextRows)]]

\* Variant: the previous result and error are not cleared when a query starts.
HandleQueryKeepOutcome ==
    /\ triggers < MaxTriggers
    /\ triggers' = triggers + 1
    /\ IF Disabled(isLoading)
       THEN /\ ignored' = ignored + 1
            /\ UNCHANGED <<isLoading, result, error, pending, calls, lastResponse>>
       ELSE /\ ignored' = ignored
            /\ IF Trim(query) = <<>>
               THEN UNCHANGED <<isLoading, result, error, pending, calls, lastResponse>>
               ELSE /\ isLoading' = TRUE
                    /\ UNCHANGED <<result, error>>
                    /\ pending' = pending + 1
                    /\ calls' = calls + 1
                    /\ lastResponse' = NoResponse
    /\ IF ~Disabled(isLoading) /\ Trim(query) # <<>>
       THEN /\ dataWithJoins' = BuildContextData(dataWithJoins).data
            /\ contextData' = BuildContextData(dataWithJoins).contextData
       ELSE UNCHANGED <<dataWithJoins, contextData>>
    /\ UNCHANGED query
    /\ UNCHANGED <<articulos, proveedores, contratos, adjudicados, tableVars>>
    /\ UNCHANGED <<dashVars, activeTab, stale>>

\* handleQuery up to its await, run by a click or by the Enter key.
HandleQuery ==
    /\ triggers < MaxTriggers
    /\ triggers' = triggers + 1
    /\ IF Disabled(isLoading)
       THEN /\ ignored' = ignored + 1
            /\ UNCHANGED <<isLoading, result, error, pending, calls, lastResponse>>
       ELSE /\ ignored' = ignored
            /\ IF Trim(query) = <<>>
               THEN UNCHANGED <<isLoading, result, error, pending, calls, lastResponse>>
               ELSE /\ isLoading' = TRUE
                    /\ error' = Null
                    /\ result' = Null
                    /\ pending' = pending + 1
                    /\ calls' = calls + 1
                    /\ lastResponse' = NoResponse
    /\ IF ~Disabled(isLoading) /\ Trim(query) # <<>>
       THEN /\ dataWithJoins' = BuildContextData(dataWithJoins).data
            /\ contextData' = BuildContextData(dataWithJoins).contextData
       ELSE UNCHANGED <<dataWithJoins, contextData>>
    /\ UNCHANGED query
    /\ UNCHANGED <<articulos, proveedores, contratos, adjudicados, tableVars>>
    /\ UNCHANGED <<dashVars, activeTab, stale>>

ClickConsultar == HandleQuery

PressEnter == HandleQuery

\* The external call settles and handleQuery resumes after its await.
Settle(response) ==
    /\ pending > 0
    /\ LET outcome == QueryDataWithGemini(response)
       IN  IF outcome.ok
           THEN /\ result' = outcome.value
                /\ UNCHANGED error
           ELSE /\ error' = Message(IF outcome.message # "" THEN outcome.message
                                    ELSE "Ocurrio un error al procesar la solicitud.")
                /\ UNCHANGED result
    /\ isLoading' = FALSE
    /\ pending' = pending - 1
    /\ lastResponse' = response
    /\ UNCHANGED <<query, calls, triggers, ignored>>
    /\ UNCHANGED <<joinVars, tableVars>>
    /\ UNCHANGED <<dashVars, appVars>>

\* DataExplorerView mounted: its useData built the joined dataset.
QueryInit ==
    /\ articulos = <<>> /\ proveedores = <<>>
    /\ contratos = <<>> /\ adjudicados = <<>>
    /\ dataWithJoins = BuildJoins(articulos, proveedores, contratos, adjudicados)
    /\ TableIdle
    /\ QueryIdle
    /\ DashIdle
    /\ activeTab = "explorer" /\ stale = 0 /\ contextData = Null

QueryNext ==
    \/ \E q \in QueryInputs : SetQuery(q)
    \/ ClickConsultar
    \/ PressEnter
    \/ \E response \in Responses : Settle(response)

SpecQuery == QueryInit /\ [][QueryNext]_vars

(***************************************************************************)
(* C5: at most one call of queryDataWithGemini is in flight, and a click   *)
(* or Enter press that arrives while isLoading is true starts no request   *)
(* and leaves isLoading, result and error as they are.                     *)
(***************************************************************************)
C5_SingleFlight ==
    /\ [](pending <= 1)
    /\ [][(isLoading /\ triggers' # triggers)
              => UNCHANGED <<isLoading, result, error, pending, calls>>]_vars

\* Two triggers arrived while the one request issued so far was in flight.
C5_Witness ==
    /\ isLoading
    /\ pending = 1
    /\ calls = 1
    /\ ignored = 2

(***************************************************************************)
(* C6: a started query sets isLoading, and once the request has settled    *)
(* isLoading is false and exactly one of result and error is set: the      *)
(* result when the call succeeded, the error when it failed.               *)
(***************************************************************************)
Succeeded(response) ==
    /\ response.kind = "text"
    /\ JsonParse(StripFence(Trim(response.text))).ok

C6_Original ==
    /\ pending > 0 => isLoading
    /\ (pending = 0 /\ lastResponse # NoResponse) =>
          /\ ~isLoading
          /\ (result # Null) # (error # Null)
          /\ Succeeded(lastResponse) => (result # Null /\ error = Null)
          /\ ~Succeeded(lastResponse) => (error # Null /\ result = Null)

(***************************************************************************)
(* C7: when the external call fails or its text, after fence stripping, is *)
(* not valid JSON, error becomes one non-empty message and result stays    *)
(* null; settling issues no further request.                               *)
(***************************************************************************)
C7_FailureSurfaced ==
    /\ []((pending = 0 /\ lastResponse # NoResponse /\ ~Succeeded(lastResponse)) =>
              /\ error # Null
              /\ error.t = "string"
              /\ error.v # ""
              /\ result = Null
              /\ ~isLoading)
    /\ [][pending' < pending => (calls' = calls /\ pending' = pending - 1)]_vars

\* A fenced text whose content is taken for the language tag, so that the
\* fences are kept and the parse fails.
C7_Witness ==
    /\ pending = 0
    /\ lastResponse = [kind |-> "text", text |-> <<Fence, "null", Fence>>]
    /\ error = Message(FailedMessage)
    /\ result = Null
    /\ calls = 1

(***************************************************************************)
(* C14: while isLoading is true, result and error are null: a starting     *)
(* query clears the outcome of the previous one; a trigger with an empty   *)
(* or blank query changes none of isLoading, result, error.                *)
(***************************************************************************)
C14_LoadingClearsOutcome ==
    /\ [](isLoading => (result = Null /\ error = Null))
    /\ [][(triggers' # triggers /\ Trim(query) = <<>>)
              => UNCHANGED <<isLoading, result, error>>]_vars

\* A second query is loading after the first one had settled, and one of the
\* three triggers so far came with a blank query.
C14_Witness ==
    /\ isLoading
    /\ calls = 2
    /\ triggers = 3
    /\ ignored = 0
    /\ result = Null
    /\ error = Null

(***************************************************************************)
(* DashboardView.  The contracts it reads carry an amount and the end of   *)
(* validity.  A date text is a sequence of lexical pieces: numbers, words, *)
(* the separators " de " and "/", or one ISO date.                         *)
(***************************************************************************)
Word(w) == [t |-> "word", v |-> w]
De == [t |-> "de", v |-> " de "]
DeUpper == [t |-> "de", v |-> " DE "]
Slash == [t |-> "slash", v |-> "/"]
Iso(y, m, d) == [t |-> "iso", y |-> y, m |-> m, d |-> d]
NaN == [t |-> "NaN"]

ContratoDash(i, k) ==
    [id_contrato |-> i, contrato |-> k[1], proveedor_fk |-> k[2],
     monto_maximo |-> k[3], fin_vigencia |-> k[4]]

\* The months table of parseDate.
months ==
    <<"enero", "febrero", "marzo", "abril", "mayo", "junio", "julio", "agosto",
      "septiembre", "octubre", "noviembre", "diciembre">>

\* toLowerCase of a piece of a date text.
LowerPiece(p) ==
    IF p.t = "word"
    THEN Word(CASE p.v = "ENERO" -> "enero"
                [] p.v = "Diciembre" -> "diciembre"
                [] OTHER -> p.v)
    ELSE IF p.t = "de" THEN De
    ELSE p

LowerText(s) == [i \in DOMAIN s |-> LowerPiece(s[i])]

\* String.prototype.split(separator): the parts between the separators.
RECURSIVE SplitFrom(_, _, _)
SplitFrom(s, sep, part) ==
    IF s = <<>> THEN <<part>>
    ELSE IF Head(s) = sep THEN <<part>> \o SplitFrom(Tail(s), sep, <<>>)
    ELSE SplitFrom(Tail(s), sep, Append(part, Head(s)))

Split(s, sep) == SplitFrom(s, sep, <<>>)

\* parseInt(text, 10): the number the text starts with, or NaN.
ParseInt(part) ==
    IF part # <<>> /\ part[1].t = "number" THEN part[1] ELSE NaN

\* months[name]: the 0-based month, or undefined.
MonthOf(part) ==
    IF Len(part) = 1 /\ part[1].t = "word" /\ \E m \in DOMAIN months : months[m] = part[1].v
    THEN Num((CHOOSE m \in DOMAIN months : months[m] = part[1].v) - 1)
    ELSE Undefined

\* Days from 1970-01-01 to the civil date y-m-d (m in 1..12, any d).
DaysFromCivil(y, m, d) ==
    LET yy == IF m <= 2 THEN y - 1 ELSE y
        era == yy \div 400
        yoe == yy - era * 400
        mp == IF m > 2 THEN m - 3 ELSE m + 9
        doy == ((153 * mp + 2) \div 5) + d - 1
        doe == yoe * 365 + (yoe \div 4) - (yoe \div 100) + doy
    IN  era * 146097 + doe - 719468

\* The largest time value of a Date, in days from the epoch.
MaxTimeDays == 100000000

\* A time value in half days, or the invalid date.
DateAt(halfDays) == [t |-> "date", v |-> halfDays]

\* new Date(year, month, day): years 0..99 are 1900..1999, month and day
\* overflow into the next units, a time out of range is the invalid date.
NewDate(year, month, day) ==
    LET fullYear == IF year >= 0 /\ year <= 99 THEN 1900 + year ELSE year
        y == fullYear + (month \div 12)
        m == (month % 12) + 1
        days == DaysFromCivil(y, m, day)
    IN  IF days > MaxTimeDays \/ days < -MaxTimeDays THEN InvalidDate
        ELSE DateAt(2 * days)

\* new Date(dateString): an ISO date is read as such, the empty text is
\* invalid, what any other text gives depends on the engine.
NewDateFromString(s) ==
    IF s = <<>> THEN InvalidDate
    ELSE IF Len(s) = 1 /\ s[1].t = "iso" THEN NewDate(s[1].y, s[1].m - 1, s[1].d)
    ELSE legacyDate

parseDate(dateString) ==
    LET parts == Split(LowerText(dateString), De)
        dateParts == Split(dateString, Slash)
        deDay == ParseInt(parts[1])
        deMonth == MonthOf(parts[2])
        deYear == ParseInt(parts[3])
        slDay == ParseInt(dateParts[1])
        slMonth == ParseInt(dateParts[2])
        slYear == ParseInt(dateParts[3])
    IN  IF Len(parts) = 3 /\ deDay # NaN /\ deMonth # Undefined /\ deYear # NaN
        THEN NewDate(deYear.v, deMonth.v, deDay.v)
        ELSE IF Len(dateParts) = 3 /\ slDay # NaN /\ slMonth # NaN /\ slYear # NaN
        THEN NewDate(slYear.v, slMonth.v - 1, slDay.v)
        ELSE NewDateFromString(dateString)

\* Variant: a contract ending exactly now still counts as current.
CountStatusInclusive(counts, con, at) ==
    LET endDate == parseDate(con.fin_vigencia)
    IN  IF endDate # InvalidDate
        THEN IF endDate.v >= at
             THEN [counts EXCEPT !.vigente = @ + 1]
             ELSE [counts EXCEPT !.expirado = @ + 1]
        ELSE counts

\* The body of contratos.forEach in contractStatusData.
CountStatus(counts, con, at) ==
    LET endDate == parseDate(con.fin_vigencia)
    IN  IF endDate # InvalidDate
        THEN IF endDate.v > at
             THEN [counts EXCEPT !.vigente = @ + 1]
             ELSE [counts EXCEPT !.expirado = @ + 1]
        ELSE counts

RECURSIVE StatusCounts(_, _, _)
StatusCounts(cons, at, counts) ==
    IF cons = <<>> THEN counts
    ELSE StatusCounts(Tail(cons), at, CountStatus(counts, Head(cons), at))

ContractStatusData(cons, at) ==
    LET statusCounts == StatusCounts(cons, at, [vigente |-> 0, expirado |-> 0])
    IN  <<[name |-> "Vigente", value |-> statusCounts.vigente],
          [name |-> "Expirado", value |-> statusCounts.expirado]>>

\* The property name one contract adds its amount under.
SpendingKey(con) ==
    IF con.proveedor # Undefined THEN con.proveedor.proveedor ELSE con.proveedor_fk

\* Variant: a later contract's amount replaces the entry's amount instead of
\* being added to it.
AddSpendingOverwrite(spending, con) ==
    LET key == SpendingKey(con)
    IN  IF \E i \in DOMAIN spending : spending[i].name = key
        THEN [i \in DOMAIN spending |->
                 IF spending[i].name = key
                 THEN [name |-> key, value |-> con.monto_maximo]
                 ELSE spending[i]]
        ELSE Append(spending, [name |-> key, value |-> con.monto_maximo])

\* spending[key] = (spending[key] || 0) + c.monto_maximo, on an object whose
\* properties keep the order in which they were created.
AddSpending(spending, con) ==
    LET key == SpendingKey(con)
    IN  IF \E i \in DOMAIN spending : spending[i].name = key
        THEN [i \in DOMAIN spending |->
                 IF spending[i].name = key
                 THEN [name |-> key, value |-> spending[i].value + con.monto_maximo]
                 ELSE spending[i]]
        ELSE Append(spending, [name |-> key, value |-> 0 + con.monto_maximo])

RECURSIVE Spending(_, _)
Spending(cons, spending) ==
    IF cons = <<>> THEN spending
    ELSE Spending(Tail(cons), AddSpending(spending, Head(cons)))

\* How many suppliers the chart shows.
TopSuppliers == 10

SpendingBySupplierData(cons) ==
    Slice(ArraySort(Spending(cons, <<>>), ByValueDesc), TopSuppliers)

(***************************************************************************)
(* The dashboard's datasets: every short list of contracts over two        *)
(* supplier keys, two amounts and the date texts below, and long lists     *)
(* that spread their contracts over up to MaxSpendContratos suppliers.     *)
(***************************************************************************)
Montos == {100, 200}

FinVigencias ==
    { <<Num(15), De, Word("enero"), De, Num(2024)>>,
      <<Num(15), DeUpper, Word("ENERO"), DeUpper, Num(2024)>>,
      <<Num(15), Slash, Num(1), Slash, Num(2024)>>,
      <<Num(1), Slash, Num(1), Slash, Num(2020)>>,
      <<Num(31), De, Word("Diciembre"), De, Num(2030)>>,
      <<Num(16), De, Word("enero"), De, Num(2024)>>,
      <<Num(15), De, Word("enro"), De, Num(2024)>>,
      <<Num(46), Slash, Num(12), Slash, Num(2023)>>,
      <<Num(1), Slash, Num(1), Slash, Num(999999)>>,
      <<Word("x"), Slash, Num(1), Slash, Num(2024)>>,
      <<Iso(2024, 1, 15)>>,
      <<Word("pendiente")>>,
      <<>> }

DefaultFin == <<Num(15), De, Word("enero"), De, Num(2024)>>

\* The instants a render can happen at: around the midnight that starts
\* 15 January 2024, in half days.
Nows == {NewDate(2024, 0, 15).v + d : d \in {-1, 0, 1}}

\* What new Date(text) makes of a text that is no ISO date.
LegacyDates == {InvalidDate, NewDate(2001, 0, 1), NewDate(2031, 0, 1)}

SpendContratoTables ==
    { [i \in 1..Len(ks) |-> ContratoDash(i, <<"C1", ks[i][1], ks[i][2], DefaultFin>>)] :
        ks \in SeqsUpTo(ProveedorFks \X Montos, MaxContratos) }

StatusContratoTables ==
    { [i \in 1..Len(fs) |-> ContratoDash(i, <<"C1", "P1", 100, fs[i]>>)] :
        fs \in SeqsUpTo(FinVigencias, MaxContratos) }

SupplierPool ==
    <<"S01", "S02", "S03", "S04", "S05", "S06", "S07", "S08", "S09", "S10",
      "S11", "S12", "S13">>

\* n contracts dealt round-robin over m suppliers, amounts following one
\* of four patterns.
WideMonto(i, n, pattern) ==
    CASE pattern = 1 -> 100
      [] pattern = 2 -> i * 100
      [] pattern = 3 -> (n - i + 1) * 100
      [] OTHER -> ((i * 7) % 5) * 100

WideContratos(n, m, pattern) ==
    [i \in 1..n |->
        ContratoDash(i, <<"C1", SupplierPool[((i - 1) % m) + 1],
                          WideMonto(i, n, pattern), DefaultFin>>)]

WideContratoTables ==
    { WideContratos(n, m, pattern) :
        n \in 0..MaxSpendContratos, m \in 1..Len(SupplierPool), pattern \in 1..4 }

WideProveedores == {<<>>, <<Proveedor(1, "S01"), Proveedor(2, "S03")>>}

NotRendered == contractStatusData = Null /\ spendingBySupplierData = Null

DashInit ==
    /\ QueryIdle /\ AppIdle
    /\ data = <<>> /\ sortConfig = Null /\ searchTerm = <<>>
    /\ engine \in Engines
    /\ dataWithJoins = NotBuilt
    /\ now = 0
    /\ NotRendered
    /\ articulos = <<>>
    /\ adjudicados = <<>>
    /\ \/ /\ contratos \in SpendContratoTables
          /\ proveedores \in ProveedorTables
          /\ legacyDate = InvalidDate
       \/ /\ contratos \in WideContratoTables
          /\ proveedores \in WideProveedores
          /\ legacyDate = InvalidDate
       \/ /\ contratos \in StatusContratoTables
          /\ proveedores = <<>>
          /\ legacyDate \in LegacyDates

\* DashboardView renders: useData builds the joined dataset and the two
\* memos are computed from its contracts.
DashboardView(at) ==
    /\ NotRendered
    /\ dataWithJoins' = BuildJoins(articulos, proveedores, contratos, adjudicados)
    /\ now' = at
    /\ contractStatusData' = ContractStatusData(dataWithJoins'.contratos, at)
    /\ spendingBySupplierData' = SpendingBySupplierData(dataWithJoins'.contratos)
    /\ UNCHANGED <<articulos, proveedores, contratos, adjudicados, legacyDate>>
    /\ UNCHANGED <<tableVars, queryVars, appVars>>

DashNext == \E at \in Nows : DashboardView(at)

SpecDash == DashInit /\ [][DashNext]_vars

Rendered == ~NotRendered

RECURSIVE SumOver(_, _)
SumOver(cons, key) ==
    IF cons = <<>> THEN 0
    ELSE (IF SpendingKey(Head(cons)) = key THEN Head(cons).monto_maximo ELSE 0)
         + SumOver(Tail(cons), key)

SpendingKeys(cons) == {SpendingKey(cons[i]) : i \in DOMAIN cons}

\* C11: the spend-by-supplier aggregate has exactly one entry per grouping
\* key it shows, each valued at the sum of monto_maximo of the contracts of
\* that key (the supplier's name when resolved, else the raw proveedor_fk);
\* the entries are in non-increasing order of value, there are
\* min(10, number of keys) of them, and no key left out has a larger sum
\* than a key shown.
C11_SpendBySupplier ==
    Rendered =>
        LET cons == dataWithJoins.contratos
            out == spendingBySupplierData
            keys == SpendingKeys(cons)
            shown == {out[i].name : i \in DOMAIN out}
        IN  /\ \A i \in DOMAIN cons :
                   SpendingKey(cons[i]) =
                       IF \E j \in DOMAIN proveedores :
                              proveedores[j].proveedor = cons[i].proveedor_fk
                       THEN cons[i].proveedor.proveedor
                       ELSE cons[i].proveedor_fk
            /\ shown \subseteq keys
            /\ \A i, j \in DOMAIN out : i # j => out[i].name # out[j].name
            /\ \A i \in DOMAIN out : out[i].value = SumOver(cons, out[i].name)
            /\ \A i, j \in DOMAIN out : i < j => out[i].value >= out[j].value
            /\ Len(out) = IF Cardinality(keys) < 10 THEN Cardinality(keys) ELSE 10
            /\ \A k \in keys \ shown, i \in DOMAIN out :
                   SumOver(cons, k) <= out[i].value

\* Two contracts of one resolved supplier, 100 and 200, show as one entry of 300.
C11_Witness ==
    /\ Rendered
    /\ Len(contratos) = 2
    /\ contratos[1].monto_maximo = 100 /\ contratos[2].monto_maximo = 200
    /\ dataWithJoins.contratos[1].proveedor # Undefined
    /\ dataWithJoins.contratos[1].proveedor = dataWithJoins.contratos[2].proveedor
    /\ spendingBySupplierData = <<[name |-> "P1", value |-> 300]>>

\* Twelve suppliers with different sums: the ten largest are shown.
C11_Truncated ==
    /\ Rendered
    /\ Cardinality(SpendingKeys(dataWithJoins.contratos)) = 12
    /\ Len(spendingBySupplierData) = 10
    /\ spendingBySupplierData[1].value > spendingBySupplierData[10].value

\* C12: every contract is counted at most once: as 'Vigente' exactly when
\* its parsed fin_vigencia is a valid date strictly after now, as 'Expirado'
\* exactly when it is a valid date not after now, and not at all when the
\* parsed date is invalid; the two counts add up to the number of contracts
\* whose end date parses.
C12_ContractStatus ==
    Rendered =>
        LET cons == dataWithJoins.contratos
            endDate == [i \in DOMAIN cons |-> parseDate(cons[i].fin_vigencia)]
            valid == {i \in DOMAIN cons : endDate[i] # InvalidDate}
            vigente == {i \in valid : endDate[i].v > now}
            expirado == {i \in valid : endDate[i].v <= now}
        IN  /\ contractStatusData =
                   <<[name |-> "Vigente", value |-> Cardinality(vigente)],
                     [name |-> "Expirado", value |-> Cardinality(expirado)]>>
            /\ vigente \cap expirado = {}
            /\ contractStatusData[1].value + contractStatusData[2].value
                   = Cardinality(valid)

\* A contract that ends at the very instant of the render is expired, one
\* without an end date is in neither count.
C12_Witness ==
    /\ Rendered
    /\ Len(contratos) = 2
    /\ contratos[1].fin_vigencia = <<Num(15), De, Word("enero"), De, Num(2024)>>
    /\ contratos[2].fin_vigencia = <<>>
    /\ parseDate(contratos[1].fin_vigencia) = DateAt(now)
    /\ contractStatusData =
           <<[name |-> "Vigente", value |-> 0], [name |-> "Expirado", value |-> 1]>>

(***************************************************************************)
(* App: one view is mounted at a time.  Mounting a view runs its useData   *)
(* and starts its local state afresh; the tables' operations are followed  *)
(* on the products tab, whose rows are the articles.                       *)
(***************************************************************************)
TABS == <<"dashboard", "explorer", "contracts", "products", "suppliers", "users">>

Tabs == {TABS[i] : i \in DOMAIN TABS}

AppArticuloTables ==
    { <<Row(1, <<Num(10), Str(<<"A", "b">>)>>), Row(2, <<p, d>>)>> :
        p \in {Num(2), Null}, d \in DescripcionValues }

AppContratos ==
    << ContratoDash(1, <<"C1", "P1", 100, DefaultFin>>),
       ContratoDash(2, <<"C2", "P3", 200, <<>> >>) >>

AppAdjudicados == <<Adjudicado(1, <<"C1", 1>>), Adjudicado(2, <<"C1", 3>>)>>

AppQueryInputs == {<<>>, <<"q">>}

AppResponses ==
    {r \in Responses :
        r.kind = "text" => r.text \in {<<"null">>, <<"[1]">>, <<"json">>}}

\* App mounted: the dashboard is the first view.
AppInit ==
    /\ articulos \in AppArticuloTables
    /\ proveedores = DefaultProveedores
    /\ contratos = AppContratos
    /\ adjudicados = AppAdjudicados
    /\ dataWithJoins = BuildJoins(articulos, proveedores, contratos, adjudicados)
    /\ data = <<>> /\ sortConfig = Null /\ searchTerm = <<>>
    /\ engine \in Engines
    /\ QueryIdle
    /\ legacyDate = InvalidDate
    /\ now \in Nows
    /\ contractStatusData = ContractStatusData(dataWithJoins.contratos, now)
    /\ spendingBySupplierData = SpendingBySupplierData(dataWithJoins.contratos)
    /\ AppIdle

\* A click on a tab of the navigation: the mounted view goes away with its
\* state, a call it still waits for settles into nothing, and the view of
\* the tab is mounted.
SetActiveTab(id, at) ==
    /\ id # activeTab
    /\ activeTab' = id
    /\ dataWithJoins' = BuildJoins(articulos, proveedores, contratos, adjudicados)
    /\ data' = IF id = "products" THEN dataWithJoins'.articulos ELSE <<>>
    /\ sortConfig' = Null
    /\ searchTerm' = <<>>
    /\ query' = <<>>
    /\ isLoading' = FALSE
    /\ result' = Null
    /\ error' = Null
    /\ lastResponse' = NoResponse
    /\ pending' = 0
    /\ stale' = stale + pending
    /\ IF id = "dashboard"
       THEN /\ now' = at
            /\ contractStatusData' = ContractStatusData(dataWithJoins'.contratos, at)
            /\ spendingBySupplierData' = SpendingBySupplierData(dataWithJoins'.contratos)
       ELSE /\ now' = now
            /\ contractStatusData' = Null
            /\ spendingBySupplierData' = Null
    /\ UNCHANGED <<articulos, proveedores, contratos, adjudicados, engine,
                   legacyDate, calls, triggers, ignored, contextData>>

\* The call of a view that is no longer mounted settles: its setState calls
\* change nothing.
SettleUnmounted ==
    /\ stale > 0
    /\ stale' = stale - 1
    /\ UNCHANGED <<joinVars, tableVars, queryVars, dashVars, activeTab, contextData>>

AppNext ==
    \/ \E id \in Tabs, at \in Nows : SetActiveTab(id, at)
    \/ activeTab = "products" /\ \E key \in Columns : RequestSort(key)
    \/ activeTab = "products" /\ \E term \in SearchTerms : SetSearchTerm(term)
    \/ activeTab = "explorer" /\ \E q \in AppQueryInputs : SetQuery(q)
    \/ activeTab = "explorer" /\ ClickConsultar
    \/ activeTab = "explorer" /\ PressEnter
    \/ activeTab = "explorer" /\ \E response \in AppResponses : Settle(response)
    \/ SettleUnmounted

SpecApp == AppInit /\ [][AppNext]_vars

\* C13: the base tables and the joined dataset are never changed: whatever
\* header clicks, search edits, tab switches and query triggers happen, the
\* joined dataset is the one built from the base tables, every table with
\* its rows in the order it was built with.
C13_NeverMutated ==
    /\ [](dataWithJoins = BuildJoins(articulos, proveedores, contratos, adjudicados))
    /\ [][UNCHANGED <<articulos, proveedores, contratos, adjudicados, dataWithJoins>>]_vars

\* The products table shows its rows in another order than the dataset has
\* them, after a query whose context carried the contracts without their
\* supplier and with a count for their awards.
C13_Witness ==
    /\ activeTab = "products"
    /\ sortConfig # Null
    /\ sortedItems # data
    /\ data = dataWithJoins.articulos
    /\ searchTerm # <<>>
    /\ calls > 0
    /\ contextData # Null
    /\ contextData.contratos[1].proveedor = Undefined
    /\ contextData.contratos[1].adjudicados = 2
    /\ dataWithJoins.contratos[1].proveedor = Proveedor(1, "P1")
    /\ Len(dataWithJoins.contratos[1].adjudicados) = 2

====
